---- MODULE Spec2Model ----
(***************************************************************************)
(* A model of send.py: the host side of a serial transfer session.         *)
(* The module-level code opens the channel, send_data streams the payload  *)
(* one character at a time while draining device responses with readline,  *)
(* receive_data polls for inbound bytes, reports throughput once a second  *)
(* and leaves its loop on an inactivity timeout, and the main block closes *)
(* the channel.  Time is a discrete non-decreasing clock `now`; every      *)
(* time.time() call of the source reads it in a step of its own, so the    *)
(* clock may advance between any two statements.  The device is an         *)
(* independent process that puts the bytes of a script into the channel's  *)
(* input buffer at moments of its own choosing.                            *)
(***************************************************************************)
EXTENDS Integers, Sequences, FiniteSets, TLC

\* ------------------------------------------------------------- bounds
MaxTime == 5
MaxPayload == 2
MaxDev == 3

\* -------------------------------------------------- program constants
TIMEOUT == 5
TIMEOUT_THRESHOLD == 3
SETTLE_DELAY == 1
REPORT_INTERVAL == 1

LF == 10

Min(a, b) == IF a < b THEN a ELSE b

Prefix(s, n) == SubSeq(s, 1, Min(Len(s), n))

\* Payload texts (sequences of code points); the session's payload is a
\* prefix of one of them, at most MaxPayload characters long.
PayloadTexts == { <<65, 66, 65>>, <<233>> }

Payloads == { Prefix(t, n) : t \in PayloadTexts, n \in 0..MaxPayload }

\* What the device may send over the whole session, byte by byte: "OK\n",
\* and a text with an invalid byte followed by valid ASCII, an empty line
\* and an unfinished line.
DevTexts == { <<79, 75, 10>>, <<255, 75, 10, 10, 79>> }

DevScripts == { Prefix(t, MaxDev) : t \in DevTexts }

VARIABLES
    pc,                   \* position of the single thread of control
    now,                  \* the clock time.time() reads
    DATA_TO_SEND,         \* the payload, fixed at session start
    devScript,            \* what the device will send, fixed at session start
    devIdx,               \* number of bytes the device has sent so far
    rxbuf,                \* the channel's input buffer (ser.in_waiting = Len)
    chanOpen,             \* the channel is open
    opened,               \* the channel was opened at some point
    failedIn,             \* "none", or the phase in which an I/O call raised
    count,                \* send_data: loop index
    sent_bytes,           \* send_data: sent_bytes
    chara,                \* send_data: chara
    written,              \* bytes handed to ser.write, in call order
    wake,                 \* end of the running time.sleep
    sleeps,               \* number of completed settle delays
    rdDeadline,           \* timeout of the running read(1) inside readline
    rdLimit,              \* call time of the running readline plus TIMEOUT
    line,                 \* bytes readline has collected so far
    drained,              \* number of bytes send_data has read
    diag,                 \* lines printed by send_data
    send_ret,             \* value returned by send_data (-1: not returned)
    leftover,             \* bytes still buffered when send_data returned
    echoIter,             \* iteration in whose write-to-check window the
                          \* device sent all its bytes (-1: none yet, -2: not so)
    received_data,        \* receive_data: received_data
    total_received_bytes, \* receive_data: total_received_bytes
    start_receive_time,   \* receive_data: start_receive_time
    last_activity_time,   \* receive_data: last_activity_time
    last_report_time,     \* receive_data: last_report_time
    no_data,              \* receive_data: no_data
    lastByteTime,         \* clock value at the last ser.read(1)
    ivLen,                \* Len(received_data) when the interval began
    reported,             \* a "SpeedRx" line has been printed
    lastReport,           \* the "SpeedRx" line just printed (dur 0: none)
    reportedBytes,        \* sum of the byte counts of the lines printed
    decoded_data          \* receive_data: decoded_data (<<-1>>: not decoded)

vars == << pc, now, DATA_TO_SEND, devScript, devIdx, rxbuf, chanOpen, opened,
           failedIn, count, sent_bytes, chara, written, wake, sleeps,
           rdDeadline, rdLimit, line, drained, diag, send_ret, leftover, echoIter,
           received_data, total_received_bytes, start_receive_time,
           last_activity_time, last_report_time, no_data, lastByteTime,
           ivLen, reported, lastReport, reportedBytes, decoded_data >>

sendVars == << count, sent_bytes, chara, written, wake, sleeps, rdDeadline,
               rdLimit,
               line, drained, diag, send_ret, leftover >>

recvVars == << received_data, total_received_bytes, start_receive_time,
               last_activity_time, last_report_time, no_data, lastByteTime,
               ivLen, reported, lastReport, reportedBytes, decoded_data >>

envVars == << now, DATA_TO_SEND, devScript, devIdx, echoIter >>

\* ------------------------------------------------------ pure functions

\* char.encode('utf-8') for a code point below 0x800.
Encode(c) ==
    IF c < 128 THEN << c >>
    ELSE << 192 + (c \div 64), 128 + (c % 64) >>

RECURSIVE EncodeAll(_)
EncodeAll(s) ==
    IF s = << >> THEN << >> ELSE Encode(Head(s)) \o EncodeAll(Tail(s))

IsCont(b) == b >= 128 /\ b <= 191

\* (variant: decoding stops at the first invalid byte)
RECURSIVE DecodeStrict(_)
DecodeStrict(bs) ==
    IF bs = << >> \/ Head(bs) >= 128 THEN << >>
    ELSE << Head(bs) >> \o DecodeStrict(Tail(bs))

\* bytes.decode('utf-8', errors='ignore') on bytes that are ASCII, two-byte
\* sequences or invalid: an invalid or truncated sequence is dropped.
RECURSIVE Decode(_)
Decode(bs) ==
    IF bs = << >> THEN << >>
    ELSE LET b == Head(bs) IN
         IF b < 128 THEN << b >> \o Decode(Tail(bs))
         ELSE IF b >= 194 /\ b <= 223 /\ Len(bs) >= 2 /\ IsCont(bs[2])
              THEN << (b - 192) * 64 + (bs[2] - 128) >> \o Decode(Tail(Tail(bs)))
              ELSE Decode(Tail(bs))

IsSpace(c) == c \in {9, 10, 11, 12, 13, 28, 29, 30, 31, 32, 133, 160}

RECURSIVE LStrip(_)
LStrip(s) ==
    IF s # << >> /\ IsSpace(Head(s)) THEN LStrip(Tail(s)) ELSE s

RECURSIVE RStrip(_)
RStrip(s) ==
    IF s # << >> /\ IsSpace(s[Len(s)]) THEN RStrip(SubSeq(s, 1, Len(s) - 1)) ELSE s

\* str.strip()
Strip(s) == RStrip(LStrip(s))

\* f"{(bits) / dur:.2f}", as a number of hundredths.
Format2(bits, dur) == (bits * 200 + dur) \div (2 * dur)

\* ------------------------------------------------------ control flow

Terminal == { "done", "aborted", "open_failed" }

SendPcs == { "s_loop", "s_sleep", "s_check", "s_readline" }

RecvLoopPcs == { "r_poll", "r_read", "r_stamp", "r_chk", "r_rep", "r_elapsed",
                 "r_reset1", "r_reset2" }

RecvPcs == { "r_init1", "r_init2", "r_init3", "r_decode" } \cup RecvLoopPcs

\* The positions at which the next statement is a call on the channel.
IOPcs == { "s_loop", "s_check", "s_readline", "r_poll", "r_read" }

Phase ==
    IF pc = "open" THEN "Idle"
    ELSE IF pc \in SendPcs THEN "Sending"
    ELSE IF pc \in RecvPcs THEN "Receiving"
    ELSE IF pc \in { "close", "done" } THEN "Done"
    ELSE "Failed"

\* The main block: send_data(), then receive_data(), then ser.close(); an
\* exception raised by either call is caught nowhere and ends the process.
\* (variant: the receive phase is skipped)
AfterSendSkip == "close"

AfterSend == "r_init1"

AfterRecv == "close"

\* (variant: the error is swallowed and the session goes on to receive)
OnErrorResume == "r_init1"

OnError == "aborted"

\* No report is on its way out.
NoReport == [bytes |-> 0, bits |-> 0, dur |-> 0, cents |-> 0]

Init ==
    /\ pc = "open"
    /\ now = 0
    /\ DATA_TO_SEND \in Payloads
    /\ devScript \in DevScripts
    /\ devIdx = 0
    /\ rxbuf = << >>
    /\ chanOpen = FALSE
    /\ opened = FALSE
    /\ failedIn = "none"
    /\ count = 0
    /\ sent_bytes = 0
    /\ chara = << >>
    /\ written = << >>
    /\ wake = 0
    /\ sleeps = 0
    /\ rdDeadline = 0
    /\ rdLimit = 0
    /\ line = << >>
    /\ drained = 0
    /\ diag = << >>
    /\ send_ret = -1
    /\ leftover = 0
    /\ echoIter = -1
    /\ received_data = << >>
    /\ total_received_bytes = 0
    /\ start_receive_time = 0
    /\ last_activity_time = 0
    /\ last_report_time = 0
    /\ no_data = TRUE
    /\ lastByteTime = 0
    /\ ivLen = 0
    /\ reported = FALSE
    /\ lastReport = NoReport
    /\ reportedBytes = 0
    /\ decoded_data = << -1 >>

\* --------------------------------------------------------- environment

\* The clock advances.
Tick ==
    /\ pc \notin Terminal
    /\ now < MaxTime
    /\ now' = now + 1
    /\ UNCHANGED << pc, DATA_TO_SEND, devScript, devIdx, echoIter, rxbuf,
                    chanOpen, opened, failedIn, sendVars, recvVars >>

\* The device sends the next byte of its script; it arrives in the input
\* buffer of the open channel.
DeviceSend ==
    /\ pc \notin Terminal
    /\ chanOpen
    /\ devIdx < Len(devScript)
    /\ devIdx' = devIdx + 1
    /\ rxbuf' = Append(rxbuf, devScript[devIdx + 1])
    /\ echoIter' = IF pc \in { "s_sleep", "s_check" } /\ echoIter \in { -1, count }
                   THEN count ELSE -2
    /\ UNCHANGED << pc, now, DATA_TO_SEND, devScript, chanOpen, opened,
                    failedIn, sendVars, recvVars >>

\* ser = serial.Serial(...): the channel opens with an empty input buffer,
\* or the constructor raises and nothing runs.
Open ==
    /\ pc = "open"
    /\ \/ /\ pc' = "s_loop"
          /\ chanOpen' = TRUE
          /\ opened' = TRUE
       \/ /\ pc' = "open_failed"
          /\ UNCHANGED << chanOpen, opened >>
    /\ UNCHANGED << envVars, rxbuf, failedIn, sendVars, recvVars >>

\* A call on the channel (write, in_waiting, read) raises.
IOFail ==
    /\ pc \in IOPcs
    /\ pc = "s_loop" => count < Len(DATA_TO_SEND)
    /\ failedIn' = IF failedIn # "none" THEN failedIn
                   ELSE IF pc \in SendPcs THEN "send" ELSE "recv"
    /\ pc' = OnError
    /\ UNCHANGED << envVars, rxbuf, chanOpen, opened, sendVars, recvVars >>

\* ser.close()
Close ==
    /\ pc = "close"
    /\ chanOpen' = FALSE
    /\ pc' = "done"
    /\ UNCHANGED << envVars, rxbuf, opened, failedIn, sendVars, recvVars >>

\* ----------------------------------------------------------- send_data

\* sent_bytes += 1
SentCount(n) == n + 1

\* (variant: the settle delay follows every character)
IsLastCharEvery(i) == i <= Len(DATA_TO_SEND) - 1

\* count == len(DATA_TO_SEND) - 1
IsLastChar(i) == i = Len(DATA_TO_SEND) - 1

\* One pass of the loop body up to the sleep: the write of one character.
SendWrite ==
    /\ pc = "s_loop"
    /\ count < Len(DATA_TO_SEND)
    /\ written' = written \o Encode(DATA_TO_SEND[count + 1])
    /\ sent_bytes' = SentCount(sent_bytes)
    /\ chara' = Append(chara, DATA_TO_SEND[count + 1])
    /\ IF IsLastChar(count)
       THEN /\ pc' = "s_sleep"
            /\ wake' = now + SETTLE_DELAY
       ELSE /\ pc' = "s_check"
            /\ UNCHANGED wake
    /\ UNCHANGED << envVars, rxbuf, chanOpen, opened, failedIn, count, sleeps,
                    rdDeadline, rdLimit, line, drained, diag, send_ret, leftover,
                    recvVars >>

\* time.sleep(1) returns.
SendSleep ==
    /\ pc = "s_sleep"
    /\ now >= wake
    /\ sleeps' = sleeps + 1
    /\ wake' = 0
    /\ pc' = "s_check"
    /\ UNCHANGED << envVars, rxbuf, chanOpen, opened, failedIn, count,
                    sent_bytes, chara, written, rdDeadline, rdLimit,
                    line,
                    drained, diag, send_ret, leftover, recvVars >>

\* if ser.in_waiting > 0: start readline, else go to the next character.
SendCheck ==
    /\ pc = "s_check"
    /\ IF Len(rxbuf) > 0
       THEN /\ pc' = "s_readline"
            /\ line' = << >>
            /\ rdDeadline' = now + TIMEOUT
            /\ rdLimit' = now + TIMEOUT
            /\ UNCHANGED count
       ELSE /\ pc' = "s_loop"
            /\ count' = count + 1
            /\ UNCHANGED << line, rdDeadline, rdLimit >>
    /\ UNCHANGED << envVars, rxbuf, chanOpen, opened, failedIn, sent_bytes,
                    chara, written, wake, sleeps, drained, diag, send_ret,
                    leftover, recvVars >>

\* (variant: the test of speed_data is inverted)
PrintedInverted(d, l) ==
    LET speed_data == Strip(Decode(l))
    IN  IF speed_data = << >> THEN Append(d, speed_data) ELSE d

\* What send_data prints for a line readline returned.
Printed(d, l) ==
    LET speed_data == Strip(Decode(l))
    IN  IF speed_data # << >> THEN Append(d, speed_data) ELSE d

\* readline: read(1) returns a byte; the line ends with a newline, otherwise
\* the next read(1) starts with a fresh timeout.
SendReadByte ==
    /\ pc = "s_readline"
    /\ Len(rxbuf) > 0
    /\ rxbuf' = Tail(rxbuf)
    /\ drained' = drained + 1
    /\ IF Head(rxbuf) = LF
       THEN /\ diag' = Printed(diag, Append(line, Head(rxbuf)))
            /\ line' = << >>
            /\ rdDeadline' = 0
            /\ rdLimit' = 0
            /\ count' = count + 1
            /\ pc' = "s_loop"
       ELSE /\ line' = Append(line, Head(rxbuf))
            /\ rdDeadline' = now + TIMEOUT
            /\ UNCHANGED << diag, count, pc, rdLimit >>
    /\ UNCHANGED << envVars, chanOpen, opened, failedIn, sent_bytes, chara,
                    written, wake, sleeps, send_ret, leftover, recvVars >>

\* readline: read(1) times out with nothing read; readline returns what it has.
SendReadTimeout ==
    /\ pc = "s_readline"
    /\ Len(rxbuf) = 0
    /\ now >= rdDeadline
    /\ diag' = Printed(diag, line)
    /\ line' = << >>
    /\ rdDeadline' = 0
    /\ rdLimit' = 0
    /\ count' = count + 1
    /\ pc' = "s_loop"
    /\ UNCHANGED << envVars, rxbuf, chanOpen, opened, failedIn, sent_bytes,
                    chara, written, wake, sleeps, drained, send_ret, leftover,
                    recvVars >>

\* The loop is exhausted: return sent_bytes.
SendReturn ==
    /\ pc = "s_loop"
    /\ count >= Len(DATA_TO_SEND)
    /\ send_ret' = sent_bytes
    /\ leftover' = Len(rxbuf)
    /\ pc' = AfterSend
    /\ UNCHANGED << envVars, rxbuf, chanOpen, opened, failedIn, count,
                    sent_bytes, chara, written, wake, sleeps, rdDeadline,
                    rdLimit,
                    line, drained, diag, recvVars >>

\* -------------------------------------------------------- receive_data

\* (variant: the no_data flag is tested the wrong way round)
TimedOutFlagInverted(elapsed, nd) ==
    elapsed > TIMEOUT_THRESHOLD /\ nd = TRUE

\* (variant: the report interval is used where the threshold belongs)
TimedOutWrongConst(elapsed, nd) == elapsed > REPORT_INTERVAL /\ nd = FALSE

\* (variant: the comparison includes the threshold itself)
TimedOutInclusive(elapsed, nd) == elapsed >= TIMEOUT_THRESHOLD /\ nd = FALSE

\* (variant: the no_data flag is not consulted)
TimedOutNoFlag(elapsed, nd) == elapsed > TIMEOUT_THRESHOLD

\* time.time() - last_activity_time > TIMEOUT_THRESHOLD and no_data == False
TimedOut(elapsed, nd) == elapsed > TIMEOUT_THRESHOLD /\ nd = FALSE

\* (variant: the comparison excludes the interval itself)
ReportDueStrict(elapsed) == elapsed > REPORT_INTERVAL

\* (variant: the report is not throttled)
ReportDueAny(elapsed) == elapsed >= 0

\* time.time() - last_report_time >= 1
ReportDue(elapsed) == elapsed >= REPORT_INTERVAL

\* (variant: the interval counter is not reset)
ResetCountKeep == total_received_bytes

\* total_received_bytes = 0
ResetCount == 0

\* received_data = b""; total_received_bytes = 0; start_receive_time = time.time()
RecvInit1 ==
    /\ pc = "r_init1"
    /\ received_data' = << >>
    /\ total_received_bytes' = 0
    /\ start_receive_time' = now
    /\ pc' = "r_init2"
    /\ UNCHANGED << envVars, rxbuf, chanOpen, opened, failedIn, sendVars,
                    last_activity_time, last_report_time, no_data,
                    lastByteTime, ivLen, reported, lastReport, reportedBytes,
                    decoded_data >>

\* last_activity_time = time.time()
RecvInit2 ==
    /\ pc = "r_init2"
    /\ last_activity_time' = now
    /\ pc' = "r_init3"
    /\ UNCHANGED << envVars, rxbuf, chanOpen, opened, failedIn, sendVars,
                    received_data, total_received_bytes, start_receive_time,
                    last_report_time, no_data, lastByteTime, ivLen, reported,
                    lastReport, decoded_data,
                    reportedBytes >>

\* last_report_time = time.time(); no_data = True
RecvInit3 ==
    /\ pc = "r_init3"
    /\ last_report_time' = now
    /\ no_data' = TRUE
    /\ pc' = "r_poll"
    /\ UNCHANGED << envVars, rxbuf, chanOpen, opened, failedIn, sendVars,
                    received_data, total_received_bytes, start_receive_time,
                    last_activity_time, lastByteTime, ivLen, reported,
                    lastReport, decoded_data,
                    reportedBytes >>

\* if ser.in_waiting > 0
RecvPoll ==
    /\ pc = "r_poll"
    /\ pc' = IF Len(rxbuf) > 0 THEN "r_read" ELSE "r_chk"
    /\ UNCHANGED << envVars, rxbuf, chanOpen, opened, failedIn, sendVars,
                    recvVars >>

\* (variant: the new byte is put in front of the buffer)
PrependChar(buf, ch) == << ch >> \o buf

\* received_data += received_char
AppendChar(buf, ch) == Append(buf, ch)

\* received_char = ser.read(1); if received_char: append, clear no_data, count
RecvRead ==
    /\ pc = "r_read"
    /\ IF Len(rxbuf) > 0
       THEN /\ rxbuf' = Tail(rxbuf)
            /\ received_data' = AppendChar(received_data, Head(rxbuf))
            /\ no_data' = FALSE
            /\ total_received_bytes' = total_received_bytes + 1
            /\ lastByteTime' = now
            /\ pc' = "r_stamp"
       ELSE /\ pc' = "r_chk"
            /\ UNCHANGED << rxbuf, received_data, no_data,
                            total_received_bytes, lastByteTime >>
    /\ UNCHANGED << envVars, chanOpen, opened, failedIn, sendVars,
                    start_receive_time, last_activity_time, last_report_time,
                    ivLen, reported, lastReport, reportedBytes, decoded_data >>

\* last_activity_time = time.time()
RecvStamp ==
    /\ pc = "r_stamp"
    /\ last_activity_time' = now
    /\ pc' = "r_chk"
    /\ UNCHANGED << envVars, rxbuf, chanOpen, opened, failedIn, sendVars,
                    received_data, total_received_bytes, start_receive_time,
                    last_report_time, no_data, lastByteTime, ivLen, reported,
                    lastReport, decoded_data,
                    reportedBytes >>

\* The inactivity check: break, or go on to the report check.
RecvChk ==
    /\ pc = "r_chk"
    /\ pc' = IF TimedOut(now - last_activity_time, no_data)
             THEN "r_decode" ELSE "r_rep"
    /\ UNCHANGED << envVars, rxbuf, chanOpen, opened, failedIn, sendVars,
                    recvVars >>

\* if time.time() - last_report_time >= 1
RecvRep ==
    /\ pc = "r_rep"
    /\ pc' = IF ReportDue(now - last_report_time) THEN "r_elapsed" ELSE "r_poll"
    /\ UNCHANGED << envVars, rxbuf, chanOpen, opened, failedIn, sendVars,
                    recvVars >>

\* elapsed_time = time.time() - start_receive_time; the report when it is
\* positive; total_received_bytes = 0
RecvElapsed ==
    /\ pc = "r_elapsed"
    /\ LET elapsed_time == now - start_receive_time
       IN  IF elapsed_time > 0
           THEN /\ lastReport' = [ bytes |-> Len(received_data) - ivLen,
                                   bits  |-> total_received_bytes * 8,
                                   dur   |-> elapsed_time,
                                   cents |-> Format2(total_received_bytes * 8,
                                                     elapsed_time) ]
                /\ reported' = TRUE
                /\ reportedBytes' = reportedBytes + total_received_bytes
           ELSE UNCHANGED << lastReport, reported, reportedBytes >>
    /\ total_received_bytes' = ResetCount
    /\ ivLen' = Len(received_data)
    /\ pc' = "r_reset1"
    /\ UNCHANGED << envVars, rxbuf, chanOpen, opened, failedIn, sendVars,
                    received_data, start_receive_time, last_activity_time,
                    last_report_time, no_data, lastByteTime, decoded_data >>

\* start_receive_time = time.time()
RecvReset1 ==
    /\ pc = "r_reset1"
    /\ start_receive_time' = now
    /\ lastReport' = NoReport
    /\ pc' = "r_reset2"
    /\ UNCHANGED << envVars, rxbuf, chanOpen, opened, failedIn, sendVars,
                    received_data, total_received_bytes, last_activity_time,
                    last_report_time, no_data, lastByteTime, ivLen, reported,
                    decoded_data,
                    reportedBytes >>

\* last_report_time = time.time()
RecvReset2 ==
    /\ pc = "r_reset2"
    /\ last_report_time' = now
    /\ pc' = "r_poll"
    /\ UNCHANGED << envVars, rxbuf, chanOpen, opened, failedIn, sendVars,
                    received_data, total_received_bytes, start_receive_time,
                    last_activity_time, no_data, lastByteTime, ivLen, reported,
                    lastReport, decoded_data,
                    reportedBytes >>

\* decoded_data = received_data.decode('utf-8', errors='ignore'); print
RecvDecode ==
    /\ pc = "r_decode"
    /\ decoded_data' = Decode(received_data)
    /\ pc' = AfterRecv
    /\ UNCHANGED << envVars, rxbuf, chanOpen, opened, failedIn, sendVars,
                    received_data, total_received_bytes, start_receive_time,
                    last_activity_time, last_report_time, no_data,
                    lastByteTime, ivLen, reported, lastReport, reportedBytes >>

\* ------------------------------------------------------- specification

Next ==
    \/ Tick
    \/ DeviceSend
    \/ Open
    \/ IOFail
    \/ Close
    \/ SendWrite
    \/ SendSleep
    \/ SendCheck
    \/ SendReadByte
    \/ SendReadTimeout
    \/ SendReturn
    \/ RecvInit1
    \/ RecvInit2
    \/ RecvInit3
    \/ RecvPoll
    \/ RecvRead
    \/ RecvStamp
    \/ RecvChk
    \/ RecvRep
    \/ RecvElapsed
    \/ RecvReset1
    \/ RecvReset2
    \/ RecvDecode

Spec == Init /\ [][Next]_vars

\* ------------------------------------------------- time without an end

\* The clock value from which the origin of the clock slides.
Horizon == 4

\* A clock reading one unit further in the past (readings at the origin stay).
Shift(t) == IF t > 0 THEN t - 1 ELSE 0

\* The clock advances, with no last instant: once `now` has reached Horizon
\* the origin of the clock slides instead, and every stored reading and
\* deadline moves one unit back.  A deadline ahead of `now` keeps its exact
\* distance; a difference now - t with a past reading t is exact up to
\* Horizon and stays at Horizon from there on, and Horizon is above both
\* thresholds the code compares such a difference with (lines 54 and 57).
TickN ==
    /\ pc \notin Terminal
    /\ IF now < Horizon
       THEN /\ now' = now + 1
            /\ UNCHANGED << wake, rdDeadline, rdLimit, start_receive_time,
                            last_activity_time, last_report_time,
                            lastByteTime >>
       ELSE /\ now' = now
            /\ wake' = Shift(wake)
            /\ rdDeadline' = Shift(rdDeadline)
            /\ rdLimit' = Shift(rdLimit)
            /\ start_receive_time' = Shift(start_receive_time)
            /\ last_activity_time' = Shift(last_activity_time)
            /\ last_report_time' = Shift(last_report_time)
            /\ lastByteTime' = Shift(lastByteTime)
    /\ UNCHANGED << pc, DATA_TO_SEND, devScript, devIdx, echoIter, rxbuf,
                    chanOpen, opened, failedIn, count, sent_bytes, chara,
                    written, sleeps, line, drained, diag, send_ret, leftover,
                    received_data, total_received_bytes, no_data, ivLen,
                    reported, lastReport, reportedBytes, decoded_data >>

\* A statement of the program that completes normally.
Step ==
    \/ Open
    \/ Close
    \/ SendWrite
    \/ SendSleep
    \/ SendCheck
    \/ SendReadByte
    \/ SendReadTimeout
    \/ SendReturn
    \/ RecvInit1
    \/ RecvInit2
    \/ RecvInit3
    \/ RecvPoll
    \/ RecvRead
    \/ RecvStamp
    \/ RecvChk
    \/ RecvRep
    \/ RecvElapsed
    \/ RecvReset1
    \/ RecvReset2
    \/ RecvDecode

FairNext ==
    \/ TickN
    \/ DeviceSend
    \/ IOFail
    \/ Step

\* The single thread keeps running (a call that does not raise returns, the
\* loops are busy loops) and the clock keeps advancing.
FairSpec == Init /\ [][FairNext]_vars /\ WF_vars(TickN) /\ WF_vars(Step)

\* -------------------------------------------------------------- claims

RecvTerminated == pc \in { "r_decode", "close", "done" }

\* C1: for every payload, when no write fails send_data returns the payload's
\* length in bytes, and the write arguments, concatenated in call order, are
\* the payload.
C1_SendCountIsByteLength ==
    send_ret # -1 =>
        /\ written = EncodeAll(DATA_TO_SEND)
        /\ send_ret = Len(EncodeAll(DATA_TO_SEND))

\* C2: the channel is closed on every exit path: no terminal state has the
\* channel opened and still open.
C2_ChannelClosedOnEveryExit ==
    (pc \in Terminal /\ opened) => ~chanOpen

\* C3: when a channel call raises inside send_data, the receive phase never
\* starts: the process has ended, receive_data has read nothing from the
\* channel and has printed no throughput report.
C3_NoReceiveAfterFailedSend ==
    failedIn = "send" =>
        /\ pc = "aborted"
        /\ send_ret = -1
        /\ received_data = << >>
        /\ drained + Len(rxbuf) = devIdx
        /\ ~reported
        /\ decoded_data = << -1 >>

C3_Witness ==
    /\ failedIn = "send"
    /\ pc \in Terminal
    /\ Len(rxbuf) > 0
    /\ sent_bytes > 0

\* C4: the Receiver never terminates early: once receive_data has left its
\* loop, at least one byte has been received and at least the inactivity
\* threshold has passed since the last byte was read.
C4_NoEarlyTermination ==
    RecvTerminated =>
        /\ Len(received_data) >= 1
        /\ no_data = FALSE
        /\ now - lastByteTime >= TIMEOUT_THRESHOLD

C4_Witness ==
    /\ pc = "r_decode"
    /\ Len(received_data) >= 1
    /\ now - lastByteTime = TIMEOUT_THRESHOLD + 1

\* C5 as stated: an inactivity check made when at least one byte has been
\* received and the last activity is at least 3 time units in the past (3
\* exactly included) ends the loop.
C5_TerminatesAtThreshold ==
    [][ ( /\ pc = "r_chk"
          /\ pc' # pc
          /\ no_data = FALSE
          /\ now - last_activity_time >= TIMEOUT_THRESHOLD )
        => pc' = "r_decode" ]_vars

\* C5 as amended: an inactivity check ends the loop exactly when at least one
\* byte has been received and the last activity is more than 3 time units in
\* the past; at exactly 3 time units the loop goes on.
C5_TerminatesPastThreshold ==
    [][ (pc = "r_chk" /\ pc' # pc)
        => ( pc' = "r_decode"
             <=> (no_data = FALSE /\ now - last_activity_time > TIMEOUT_THRESHOLD) )
      ]_vars

C5_Witness ==
    /\ pc = "r_decode"
    /\ no_data = FALSE
    /\ now - last_activity_time = TIMEOUT_THRESHOLD + 1
    /\ decoded_data = << -1 >>

\* C6: as long as the channel has delivered no byte in the receive phase the
\* no_data flag stays set and receive_data stays in its loop, however far
\* the clock has advanced; the flag is cleared only by a byte being read, and
\* a due throughput report is still printed.
C6_SilentChannelNeverTerminates ==
    /\ [](no_data => ~RecvTerminated)
    /\ []((pc \in RecvLoopPcs /\ received_data = << >>) => no_data)
    /\ [][ (no_data /\ ~no_data')
           => (pc = "r_read" /\ Len(received_data') = Len(received_data) + 1) ]_vars
    /\ [][ (pc = "r_elapsed" /\ pc' # pc /\ no_data)
           => (reported' /\ lastReport'.dur > 0 /\ lastReport'.cents = 0) ]_vars

C6_Witness ==
    /\ pc = "r_reset1"
    /\ no_data
    /\ lastReport.dur > 0
    /\ rxbuf = << >>
    /\ now - last_activity_time > TIMEOUT_THRESHOLD

\* The end-to-end scenario: the payload is "AB", the device sends "OK\n" and
\* nothing else, all of it between one write and the in_waiting check that
\* follows it, and no channel call has raised.
EndToEnd ==
    /\ DATA_TO_SEND = << 65, 66 >>
    /\ devScript = << 79, 75, 10 >>
    /\ devIdx = 3
    /\ echoIter >= 0
    /\ failedIn = "none"

Contains(d, w) ==
    \E i \in 1..Len(d) : \E k \in 0..(Len(d[i]) - Len(w)) :
        SubSeq(d[i], k + 1, k + Len(w)) = w

\* C7 as stated: in the end-to-end scenario the Receiver terminates once the
\* inactivity threshold has passed: an inactivity check made more than 3
\* time units after the last activity ends the loop.
C7_EndToEndTerminates ==
    [][ ( /\ EndToEnd
          /\ pc = "r_chk"
          /\ pc' # pc
          /\ now - last_activity_time > TIMEOUT_THRESHOLD )
        => pc' = "r_decode" ]_vars

\* C7 as amended: in the end-to-end scenario send_data returns 2 after
\* writing "AB", the diagnostic output contains "OK" once the iteration of
\* the echo is over, and the Receiver, which receives nothing, never leaves
\* its loop and surfaces no final result.
C7_EndToEndNeverTerminates ==
    EndToEnd =>
        /\ send_ret # -1 => (send_ret = 2 /\ written = << 65, 66 >>)
        /\ count > echoIter => Contains(diag, << 79, 75 >>)
        /\ pc \in RecvPcs => (received_data = << >> /\ no_data)
        /\ ~RecvTerminated
        /\ decoded_data = << -1 >>

C7_Witness ==
    /\ EndToEnd
    /\ pc = "r_rep"
    /\ send_ret = 2
    /\ diag = << << 79, 75 >> >>
    /\ reported
    /\ now - last_activity_time > TIMEOUT_THRESHOLD

\* The bytes of received_data that the device sent before send_data returned.
StaleRx == Min(Len(received_data), leftover)

\* C8: every byte the device sent while send_data was running is drained by
\* send_data: none is appended to receive_data's buffer (stated for the
\* non-empty payloads, whose every character is followed by a drain check).
C8_NoStaleBytesInReceiver ==
    Len(DATA_TO_SEND) > 0 => StaleRx = 0

\* C9: a throughput report is non-negative and is the number of bytes
\* appended to the buffer in its interval, times 8, over the interval's
\* duration (printed to two decimals); it is 0 for an interval without bytes.
C9_ThroughputReport ==
    lastReport.dur > 0 =>
        /\ pc = "r_reset1"
        /\ lastReport.bytes >= 0
        /\ lastReport.bits = 8 * lastReport.bytes
        /\ lastReport.dur <= now - start_receive_time
        /\ lastReport.cents = Format2(8 * lastReport.bytes, lastReport.dur)
        /\ lastReport.cents >= 0
        /\ lastReport.bytes = 0 => lastReport.cents = 0
        /\ lastReport.bytes > 0 => lastReport.cents > 0

C9_Witness ==
    /\ pc = "r_reset1"
    /\ lastReport.dur > 0
    /\ lastReport.bytes > 0
    /\ Len(received_data) > lastReport.bytes

PhaseOrder ==
    { << "Idle", "Sending" >>, << "Idle", "Failed" >>,
      << "Sending", "Receiving" >>, << "Sending", "Failed" >>,
      << "Receiving", "Done" >>, << "Receiving", "Failed" >> }

\* C10: the phases follow one another as Sending, Receiving, Done: the
\* channel is written only while sending and read by receive_data only while
\* receiving, the receive phase starts with the whole payload written and
\* the settle delay over, and the channel is closed only after the Receiver
\* has terminated.
C10_PhaseOrder ==
    /\ [][ Phase' # Phase => << Phase, Phase' >> \in PhaseOrder ]_vars
    /\ [][ written' # written => (Phase = "Sending" /\ Phase' = "Sending") ]_vars
    /\ [][ received_data' # received_data => Phase = "Receiving" ]_vars
    /\ []( Phase \in { "Receiving", "Done" } =>
             /\ send_ret = Len(DATA_TO_SEND)
             /\ Len(chara) = Len(DATA_TO_SEND)
             /\ Len(DATA_TO_SEND) > 0 => sleeps = 1 )
    /\ []( Phase = "Sending" => (received_data = << >> /\ ~reported) )
    /\ []( (opened /\ ~chanOpen) => (pc = "done" /\ decoded_data # << -1 >>) )

C10_Witness ==
    /\ pc = "done"
    /\ ~chanOpen
    /\ Len(DATA_TO_SEND) = 2
    /\ sleeps = 1
    /\ Len(received_data) > 0

\* The bytes of a buffer that are ASCII, in their order.
AsciiOnly(bs) == SelectSeq(bs, LAMBDA b : b < 128)

\* C11: decoding never aborts the session: the final decode of any buffer,
\* one with an invalid byte before valid ASCII included, completes, drops
\* only the invalid bytes and surfaces the valid ones in their order, and
\* then the session goes on to close; an undecodable device response during
\* send_data leaves only decodable text in the diagnostics and does not keep
\* the rest of the payload from being written.
C11_DecodeNeverAborts ==
    /\ pc = "r_decode" => decoded_data = << -1 >>
    /\ pc \in { "close", "done" } =>
           /\ decoded_data = AsciiOnly(received_data)
           /\ failedIn = "none"
    /\ \A i \in 1..Len(diag) : diag[i] # << >> /\ AsciiOnly(diag[i]) = diag[i]
    /\ (send_ret # -1 \/ pc \in RecvPcs) => written = EncodeAll(DATA_TO_SEND)

C11_Witness ==
    /\ pc = "done"
    /\ received_data = << 255, 75, 10 >>
    /\ decoded_data = << 75, 10 >>

\* C12: receive_data reads only when the channel reports a byte available,
\* one byte per iteration; a read appends the byte to the end of the buffer
\* and adds one to the interval counter, and last-activity is then set to
\* the current time; the buffer is the bytes read from the channel in the
\* receive phase in arrival order; an iteration that finds no byte available
\* changes none of the buffer, the counter and last-activity.
C12_ReadOneByteInOrder ==
    /\ []( /\ received_data
              = SubSeq(devScript, drained + 1, drained + Len(received_data))
           /\ drained + Len(received_data) + Len(rxbuf) = devIdx
           /\ pc = "r_read" => Len(rxbuf) >= 1 )
    /\ [][ received_data' # received_data =>
             /\ pc = "r_read"
             /\ pc' = "r_stamp"
             /\ received_data' = Append(received_data, Head(rxbuf))
             /\ rxbuf' = Tail(rxbuf)
             /\ total_received_bytes' = total_received_bytes + 1 ]_vars
    /\ [][ (pc = "r_stamp" /\ pc' # pc) =>
             (last_activity_time' = now /\ pc' = "r_chk") ]_vars
    /\ [][ last_activity_time' # last_activity_time =>
             pc \in { "r_init2", "r_stamp" } ]_vars
    /\ [][ (pc = "r_poll" /\ pc' # pc /\ Len(rxbuf) = 0 /\ failedIn' = failedIn) =>
             /\ pc' = "r_chk"
             /\ UNCHANGED << received_data, total_received_bytes,
                             last_activity_time, rxbuf >> ]_vars
    /\ [][ (pc = "r_poll" /\ pc' = "r_read") => Len(rxbuf) >= 1 ]_vars

C12_Witness ==
    /\ pc = "r_stamp"
    /\ Len(received_data) = 2
    /\ received_data[1] # received_data[2]
    /\ total_received_bytes = 2
    /\ last_activity_time < now

\* C13: the report check passes exactly when at least 1 time unit has gone
\* by since the last report, whether or not bytes have been received and the
\* inactivity timer is running; a passed check prints a report, resets the
\* interval counter to 0 and sets the interval start time and the
\* last-report time to the current time, so that reports are at least 1
\* time unit apart.
C13_ReportOncePerInterval ==
    /\ [][ (pc = "r_rep" /\ pc' # pc) =>
             ( pc' = "r_elapsed"
               <=> now - last_report_time >= REPORT_INTERVAL ) ]_vars
    /\ [][ (pc = "r_elapsed" /\ pc' # pc) =>
             /\ now - last_report_time >= REPORT_INTERVAL
             /\ reported'
             /\ lastReport'.dur >= REPORT_INTERVAL
             /\ total_received_bytes' = 0
             /\ pc' = "r_reset1" ]_vars
    /\ [][ (pc = "r_reset1" /\ pc' # pc) =>
             (start_receive_time' = now /\ pc' = "r_reset2") ]_vars
    /\ [][ (pc = "r_reset2" /\ pc' # pc) =>
             (last_report_time' = now /\ pc' = "r_poll") ]_vars
    /\ [][ last_report_time' # last_report_time =>
             pc \in { "r_init3", "r_reset2" } ]_vars

C13_Witness ==
    /\ pc = "r_reset1"
    /\ lastReport.dur > 0
    /\ no_data = FALSE
    /\ total_received_bytes = 0
    /\ now - last_activity_time = TIMEOUT_THRESHOLD

\* C14: for a non-empty payload send_data sleeps for the settle delay exactly
\* once, after the write of the last character and before it returns; no
\* sleep follows an earlier character, and none happens for an empty payload.
C14_SettleDelayOnce ==
    /\ []( /\ sleeps <= 1
           /\ pc = "s_sleep" =>
                  (sleeps = 0 /\ count = Len(DATA_TO_SEND) - 1
                   /\ Len(chara) = Len(DATA_TO_SEND))
           /\ sleeps = 1 => (Len(DATA_TO_SEND) > 0 /\ Len(chara) = Len(DATA_TO_SEND))
           /\ send_ret # -1 => sleeps = (IF Len(DATA_TO_SEND) > 0 THEN 1 ELSE 0)
           /\ received_data # << >> => send_ret # -1 )
    /\ [][ (pc' = "s_sleep" /\ pc # "s_sleep") =>
             (pc = "s_loop" /\ wake' = now + SETTLE_DELAY) ]_vars
    /\ [][ sleeps' # sleeps =>
             /\ pc = "s_sleep"
             /\ pc' = "s_check"
             /\ now >= wake
             /\ sleeps' = sleeps + 1 ]_vars

C14_Witness ==
    /\ pc = "r_init1"
    /\ send_ret = 2
    /\ sleeps = 1
    /\ now = SETTLE_DELAY

\* C16: whenever receive_data has left its loop its accumulated buffer is
\* not empty: at least one byte was read in the receive phase (the decoded
\* text may still be empty).
C16_TerminatedBufferNonEmpty ==
    (RecvTerminated \/ decoded_data # << -1 >>) =>
        /\ received_data # << >>
        /\ devIdx - drained - Len(rxbuf) >= 1

C16_Witness ==
    /\ pc = "done"
    /\ received_data = << 255 >>
    /\ decoded_data = << >>

\* C17: the byte counts of the reports printed so far plus the interval
\* counter add up to the length of the buffer; the reported bytes are the
\* buffer's prefix up to the last reset, so no byte is counted twice, and at
\* termination the uncounted bytes are those received since the last report.
C17_ByteAccounting ==
    /\ reportedBytes + total_received_bytes = Len(received_data)
    /\ reportedBytes = ivLen
    /\ RecvTerminated => total_received_bytes = Len(received_data) - ivLen

C17_Witness ==
    /\ pc = "r_decode"
    /\ reportedBytes > 0
    /\ total_received_bytes > 0

\* C18: with a non-decreasing clock the divisor of a due report is at least
\* 1 time unit: the interval start is never later than the last report
\* time, elapsed_time > 0 holds whenever it is tested, and every due report
\* is printed, none skipped with its bytes discarded.
C18_DivisorAtLeastOne ==
    /\ pc = "r_elapsed" => now - start_receive_time >= REPORT_INTERVAL
    /\ pc \in { "r_poll", "r_read", "r_stamp", "r_chk", "r_rep", "r_elapsed" }
           => start_receive_time <= last_report_time
    /\ pc = "r_reset1" => lastReport.dur >= REPORT_INTERVAL
    /\ lastReport.dur # 0 => lastReport.dur >= REPORT_INTERVAL

C18_Witness ==
    /\ pc = "r_reset1"
    /\ lastReport.dur > now - last_report_time
    /\ start_receive_time < last_report_time
    /\ lastReport.bytes > 0

\* C15: receiver liveness: once receive_data has read a byte, and with the
\* device sending only finitely many bytes, the loop is eventually left and
\* the decoded result surfaced (unless a call on the channel raises), given
\* that the thread keeps running and the clock keeps advancing; conversely
\* the loop is left only when more than 3 time units have gone by since the
\* last byte was read, so it is never left while bytes keep being read at
\* gaps of at most 3 time units.
C15_ReceiverLiveness ==
    /\ (pc \in RecvLoopPcs /\ no_data = FALSE)
           ~> (decoded_data # << -1 >> \/ failedIn # "none")
    /\ [][ (pc \in RecvLoopPcs /\ pc' \notin RecvLoopPcs /\ failedIn' = failedIn)
             => /\ pc = "r_chk"
                /\ pc' = "r_decode"
                /\ no_data = FALSE
                /\ now - lastByteTime > TIMEOUT_THRESHOLD ]_vars

C15_Witness ==
    /\ pc = "done"
    /\ failedIn = "none"
    /\ devIdx = Len(devScript)
    /\ Len(received_data) = MaxDev
    /\ decoded_data = AsciiOnly(received_data)
    /\ now - lastByteTime > TIMEOUT_THRESHOLD

\* C19: send_data always returns when no write fails, whatever the device
\* does, because a payload character triggers at most one drain read and a
\* drain read (readline) is bounded by the channel's read timeout: while
\* it runs it gives up waiting no later than the read timeout after its
\* call.
C19_DrainReadBounded ==
    pc = "s_readline" =>
        /\ count < Len(DATA_TO_SEND)
        /\ rdDeadline <= rdLimit

====
